---- MODULE Spec2Model ----
(***************************************************************************)
(* The KNI bridge of dperf (src/kni.c): lifecycle of the per-port kernel   *)
(* shadow interfaces (kni_start, kni_link_up, kni_stop) and the packet     *)
(* bridge (kni_recv, kni_send).  The DPDK library, the hardware and the    *)
(* kernel are the environment: each of their calls returns an outcome the  *)
(* action draws with \E, and every call made is written to last.calls.     *)
(***************************************************************************)
EXTENDS Integers, Sequences, FiniteSets, TLC

VARIABLES
    cfg,        \* struct config: [kni, kni_ifname, ports]; fixed after parsing
    kni,        \* kni[p]: port->kni of the port at list position p (NULL or a handle)
    live,       \* names of the interfaces the kernel holds (allocated, not yet released)
    nextKni,    \* identity given to the next handle rte_kni_alloc returns
    released,   \* released[h]: number of rte_kni_release calls made on handle h
    kq,         \* kq[p]: buffers the kernel queued on the interface of port p, oldest first
    nextKbuf,   \* number of buffers the kernel has queued so far
    nextBuf,    \* number of buffers the fast path has passed to kni_recv so far
    accepted,   \* fast-path buffers the kernel accepted from rte_kni_tx_burst
    freed,      \* freed[m]: number of times buffer m was released to its pool
    stats,      \* the counters: kni_rx, kni_tx, rx_bad
    phase,      \* the caller's sequencing: "stopped", "started", or "working"
    starts,     \* number of kni_start calls made so far
    crashed,    \* the process died on an invalid memory access
    req,        \* req[p]: the kernel's control request on the interface of port p
    last        \* the last operation: its name, port, return value and the calls it made

vars == <<cfg, kni, live, nextKni, released, kq, nextKbuf, nextBuf,
          accepted, freed, stats, phase, starts, crashed, req, last>>

------------------------------------------------------------------------------
\* Bounds of the model.
MaxPorts == 2
MaxStarts == 1
MaxBufs == 2
NB_RXD == 1

\* Program constants.
RTE_KNI_NAMESIZE == 16
RTE_MBUF_DEFAULT_DATAROOM == 2048

NULL == [id |-> 0]

\* The hardware identifiers of the ports in the order the configuration lists them:
\* neither contiguous nor ascending.
HwIds == <<5, 2, 7, 3>>

Rep(c, n) == [i \in 1..n |-> c]

\* The interface-name prefix of the configuration: a short one, and one as long
\* as an interface name may be.
Prefixes ==
    { <<"k", "n", "i">>,
      Rep("w", RTE_KNI_NAMESIZE - 1) }

\* The configured port lists: the first 1..MaxPorts ports.
PortLists == { SubSeq(HwIds, 1, n) : n \in 1..MaxPorts }

Configs ==
    { [kni |-> en, kni_ifname |-> pre, ports |-> [i \in DOMAIN ids |-> [id |-> ids[i]]]]
      : en \in BOOLEAN, pre \in Prefixes, ids \in PortLists }

NPorts(c) == Len(c.ports)
Positions(c) == 1..NPorts(c)

------------------------------------------------------------------------------
\* printf's %d of a non-negative int.
DigitChars == <<"0", "1", "2", "3", "4", "5", "6", "7", "8", "9">>

RECURSIVE Digits(_)
Digits(n) == IF n < 10 THEN <<DigitChars[n + 1]>>
             ELSE Digits(n \div 10) \o <<DigitChars[(n % 10) + 1]>>

\* snprintf(buf, size, ...): at most size-1 characters are stored.
Snprintf(size, s) == IF Len(s) <= size - 1 THEN s ELSE SubSeq(s, 1, size - 1)

\* idx = port - &(cfg->ports[0]): the zero-based list position.
PortIdx(p) == p - 1

\* The name <prefix><ordinal> before it is stored in the bounded buffer.
FullName(c, p) == c.kni_ifname \o Digits(PortIdx(p))

------------------------------------------------------------------------------
\* What the hardware of the port with identifier port_id reports.
DevInfo(port_id) == [min_mtu |-> 68, max_mtu |-> 9000 + port_id]
DevMtu(port_id) == 1500 + port_id
DevMac(port_id) == 100 + port_id

\* The outcomes of the hardware queries and of the allocation made for one port.
\* TRUE is success; a query that is not reached has no outcome of its own, so it
\* is listed as TRUE only.
HwOutcomes ==
    { o \in [info : BOOLEAN, mtu : BOOLEAN, mac : BOOLEAN, alloc : BOOLEAN] :
        /\ ~o.info => (o.mtu /\ o.mac)
        /\ ~(o.info /\ o.mac) => o.alloc }

\* memset(&conf, 0, sizeof(conf))
ZeroConf == [name |-> <<>>, group_id |-> 0, mbuf_size |-> 0,
             min_mtu |-> 0, max_mtu |-> 0, mtu |-> 0, mac_addr |-> 0]

\* uint16_t port_id = port->id
U16(x) == x % 65536

\* The program's state as one record, so that a function of the source is an
\* operator from state to state; calls and ret are what the operation did.
World ==
    [kni |-> kni, live |-> live, nextKni |-> nextKni, released |-> released,
     kq |-> kq, accepted |-> accepted,
     freed |-> freed, stats |-> stats, crashed |-> crashed, req |-> req,
     calls |-> <<>>, ret |-> 0]

Logged(w, call) == [w EXCEPT !.calls = Append(@, call)]

kni_set_mtu(port_id, conf, e) ==
    IF ~e.info
    THEN [ret |-> -1, conf |-> conf,
          calls |-> << [fn |-> "rte_eth_dev_info_get", port_id |-> port_id, ok |-> FALSE] >>]
    ELSE [ret |-> 0,
          conf |-> [conf EXCEPT !.min_mtu = DevInfo(port_id).min_mtu,
                                !.max_mtu = DevInfo(port_id).max_mtu,
                                !.mtu = IF e.mtu THEN DevMtu(port_id) ELSE @],
          calls |-> << [fn |-> "rte_eth_dev_info_get", port_id |-> port_id, ok |-> TRUE],
                       [fn |-> "rte_eth_dev_get_mtu", port_id |-> port_id, ok |-> e.mtu] >>]

\* kni_set_mac without its check of the query's result.
kni_set_mac_Unchecked(port_id, conf, e) ==
    [ret |-> 0,
     conf |-> IF e.mac THEN [conf EXCEPT !.mac_addr = DevMac(port_id)] ELSE conf,
     calls |-> << [fn |-> "rte_eth_macaddr_get", port_id |-> port_id, ok |-> e.mac] >>]

kni_set_mac(port_id, conf, e) ==
    IF ~e.mac
    THEN [ret |-> -1, conf |-> conf,
          calls |-> << [fn |-> "rte_eth_macaddr_get", port_id |-> port_id, ok |-> FALSE] >>]
    ELSE [ret |-> 0, conf |-> [conf EXCEPT !.mac_addr = DevMac(port_id)],
          calls |-> << [fn |-> "rte_eth_macaddr_get", port_id |-> port_id, ok |-> TRUE] >>]

kni_set_name(c, p) == Snprintf(RTE_KNI_NAMESIZE, c.kni_ifname \o Digits(PortIdx(p)))

\* The group identifier taken from the list position instead of port->id.
ConfGroupId_Idx(c, p) == PortIdx(p)

\* conf.group_id = port_id
ConfGroupId(c, p) == U16(c.ports[p].id)

\* The library's allocation: it fails when the environment makes it fail and when
\* an interface of that name already exists; the handle keeps the configuration.
rte_kni_alloc(conf, e, w) ==
    IF e.alloc /\ conf.name \notin w.live
    THEN [id |-> w.nextKni, conf |-> conf]
    ELSE NULL

\* kni_alloc for the port at list position p: the handle (or NULL) and the calls made.
kni_alloc(c, p, e, w) ==
    LET port_id == U16(c.ports[p].id)
        conf0 == [ZeroConf EXCEPT !.group_id = ConfGroupId(c, p),
                                  !.mbuf_size = RTE_MBUF_DEFAULT_DATAROOM,
                                  !.name = kni_set_name(c, p)]
        m == kni_set_mtu(port_id, conf0, e)
        a == kni_set_mac(port_id, m.conf, e)
        h == rte_kni_alloc(a.conf, e, w)
    IN  IF m.ret < 0 THEN [kni |-> NULL, calls |-> m.calls]
        ELSE IF a.ret < 0 THEN [kni |-> NULL, calls |-> m.calls \o a.calls]
        ELSE [kni |-> h,
              calls |-> m.calls \o a.calls \o
                        << [fn |-> "rte_kni_alloc", conf |-> a.conf, ok |-> h # NULL] >>]

\* kni_create's loop passing over a port that failed and going on to the next.
RECURSIVE kni_create_from_Continue(_, _, _, _)
kni_create_from_Continue(c, e, w, p) ==
    IF p > NPorts(c) THEN w
    ELSE LET a == kni_alloc(c, p, e[p], w)
             w1 == [w EXCEPT !.calls = @ \o a.calls]
         IN  IF a.kni = NULL THEN kni_create_from_Continue(c, e, [w1 EXCEPT !.ret = -1], p + 1)
             ELSE kni_create_from_Continue(c, e,
                      [w1 EXCEPT !.kni[p] = a.kni,
                                 !.live = @ \cup {a.kni.conf.name},
                                 !.nextKni = @ + 1,
                                 !.released = @ @@ (a.kni.id :> 0)],
                      p + 1)

\* The loop of kni_create from list position p on: e[p] are the outcomes for port p.
RECURSIVE kni_create_from(_, _, _, _)
kni_create_from(c, e, w, p) ==
    IF p > NPorts(c) THEN [w EXCEPT !.ret = 0]
    ELSE LET a == kni_alloc(c, p, e[p], w)
             w1 == [w EXCEPT !.calls = @ \o a.calls]
         IN  IF a.kni = NULL THEN [w1 EXCEPT !.ret = -1]
             ELSE kni_create_from(c, e,
                      [w1 EXCEPT !.kni[p] = a.kni,
                                 !.live = @ \cup {a.kni.conf.name},
                                 !.nextKni = @ + 1,
                                 !.released = @ @@ (a.kni.id :> 0)],
                      p + 1)

\* kni_create undoing its attachments when a port fails.
kni_create_Rollback(c, e, w) ==
    LET r == kni_create_from(c, e, Logged(w, [fn |-> "rte_kni_init", ok |-> TRUE]), 1)
    IN  IF r.ret < 0 THEN [r EXCEPT !.kni = [p \in Positions(c) |-> NULL]] ELSE r

kni_create(c, e, w) ==
    kni_create_from(c, e, Logged(w, [fn |-> "rte_kni_init", ok |-> TRUE]), 1)

\* kni_start without its test of the enable flag.
kni_start_Unguarded(c, e, w) == kni_create(c, e, w)

kni_start(c, e, w) ==
    IF ~c.kni THEN [w EXCEPT !.ret = 0] ELSE kni_create(c, e, w)

\* rte_kni_release(h): a successful release removes the interface from the kernel,
\* with its queued buffers.
rte_kni_release(w, p, ok) ==
    LET h == w.kni[p]
        w1 == [Logged(w, [fn |-> "rte_kni_release", kni |-> h.id, ok |-> ok])
                 EXCEPT !.released[h.id] = @ + 1]
    IN  IF ok
        THEN [w1 EXCEPT !.live = @ \ {h.conf.name},
                        !.kq[p] = <<>>,
                        !.req[p] = "none"]
        ELSE w1

\* kni_free's loop body leaving the handle attached when its release fails.
kni_free_port_KeepFailed(w, p, ok) ==
    IF w.kni[p] = NULL THEN w
    ELSE IF ok THEN [rte_kni_release(w, p, ok) EXCEPT !.kni[p] = NULL]
    ELSE rte_kni_release(w, p, ok)

\* kni_free's loop body without port->kni = NULL.
kni_free_port_NoDetach(w, p, ok) ==
    IF w.kni[p] = NULL THEN w ELSE rte_kni_release(w, p, ok)

\* The body of kni_free's loop for the port at list position p.
kni_free_port(w, p, ok) ==
    IF w.kni[p] = NULL THEN w
    ELSE [rte_kni_release(w, p, ok) EXCEPT !.kni[p] = NULL]

\* kni_free's loop giving up at the first release that fails.
RECURSIVE kni_free_from_Abort(_, _, _, _)
kni_free_from_Abort(c, r, w, p) ==
    IF p > NPorts(c) THEN w
    ELSE IF w.kni[p] # NULL /\ ~r[p] THEN rte_kni_release(w, p, r[p])
    ELSE kni_free_from_Abort(c, r, kni_free_port(w, p, r[p]), p + 1)

RECURSIVE kni_free_from(_, _, _, _)
kni_free_from(c, r, w, p) ==
    IF p > NPorts(c) THEN w
    ELSE kni_free_from(c, r, kni_free_port(w, p, r[p]), p + 1)

kni_free(c, r, w) == kni_free_from(c, r, w, 1)

kni_stop(c, r, w) == IF c.kni THEN kni_free(c, r, w) ELSE w

\* The outcomes of the steps of kni_set_link_up for one port.
LinkOutcomes == {"ok", "socket_fails", "get_fails", "set_fails"}

\* kni_set_link_up returning at a failed flags read without closing the channel.
kni_set_link_up_Leak(c, w, p, o) ==
    LET name == kni_set_name(c, p)
        sock == [fn |-> "socket", ok |-> o # "socket_fails"]
        getf == [fn |-> "ioctl_SIOCGIFFLAGS", name |-> name, ok |-> o # "get_fails"]
        setf == [fn |-> "ioctl_SIOCSIFFLAGS", name |-> name, ok |-> o # "set_fails"]
        clos == [fn |-> "close", ok |-> TRUE]
    IN  IF w.kni[p] = NULL THEN [w EXCEPT !.ret = 0]
        ELSE IF o = "socket_fails"
             THEN [w EXCEPT !.ret = -1, !.calls = @ \o <<sock>>]
        ELSE IF o = "get_fails"
             THEN [w EXCEPT !.ret = -1, !.calls = @ \o <<sock, getf>>]
        ELSE IF o = "set_fails"
             THEN [w EXCEPT !.ret = -1, !.calls = @ \o <<sock, getf, setf, clos>>]
        ELSE [w EXCEPT !.ret = 0, !.calls = @ \o <<sock, getf, setf, clos>>]

\* kni_set_link_up for the port at list position p.
kni_set_link_up(c, w, p, o) ==
    LET name == kni_set_name(c, p)
        sock == [fn |-> "socket", ok |-> o # "socket_fails"]
        getf == [fn |-> "ioctl_SIOCGIFFLAGS", name |-> name, ok |-> o # "get_fails"]
        setf == [fn |-> "ioctl_SIOCSIFFLAGS", name |-> name, ok |-> o # "set_fails"]
        clos == [fn |-> "close", ok |-> TRUE]
    IN  IF w.kni[p] = NULL THEN [w EXCEPT !.ret = 0]
        ELSE IF o = "socket_fails"
             THEN [w EXCEPT !.ret = -1, !.calls = @ \o <<sock>>]
        ELSE IF o = "get_fails"
             THEN [w EXCEPT !.ret = -1, !.calls = @ \o <<sock, getf, clos>>]
        ELSE IF o = "set_fails"
             THEN [w EXCEPT !.ret = -1, !.calls = @ \o <<sock, getf, setf, clos>>]
        ELSE [w EXCEPT !.ret = 0, !.calls = @ \o <<sock, getf, setf, clos>>]

\* kni_link_up going on to the next port after a port failed.
RECURSIVE kni_link_up_from_Continue(_, _, _, _)
kni_link_up_from_Continue(c, o, w, p) ==
    IF p > NPorts(c) THEN w
    ELSE LET w1 == kni_set_link_up(c, [w EXCEPT !.ret = 0], p, o[p])
         IN  kni_link_up_from_Continue(c, o,
                 [w1 EXCEPT !.ret = IF w.ret < 0 \/ w1.ret < 0 THEN -1 ELSE 0], p + 1)

RECURSIVE kni_link_up_from(_, _, _, _)
kni_link_up_from(c, o, w, p) ==
    IF p > NPorts(c) THEN [w EXCEPT !.ret = 0]
    ELSE LET w1 == kni_set_link_up(c, w, p, o[p])
         IN  IF w1.ret < 0 THEN [w1 EXCEPT !.ret = -1]
             ELSE kni_link_up_from(c, o, w1, p + 1)

kni_link_up(c, o, w) == kni_link_up_from(c, o, w, 1)

------------------------------------------------------------------------------
\* mbuf_free2(m): the buffer goes back to its pool and the drop counter counts it.
mbuf_free2(w, m) ==
    [Logged(w, [fn |-> "mbuf_free2", m |-> m])
       EXCEPT !.freed = IF m \in DOMAIN @ THEN [@ EXCEPT ![m] = @ + 1] ELSE @ @@ (m :> 1),
              !.stats.drop = @ + 1]

\* rte_kni_tx_burst(kni, &m, 1): 1 when the kernel-facing queue takes the buffer.
rte_kni_tx_burst(w, h, m, txok) ==
    [Logged(w, [fn |-> "rte_kni_tx_burst", kni |-> h.id, m |-> m, ok |-> txok])
       EXCEPT !.accepted = IF txok THEN @ \cup {m} ELSE @,
              !.ret = IF txok THEN 1 ELSE 0]

net_stats_kni_rx(w) == [w EXCEPT !.stats.kni_rx = @ + 1]

\* kni_recv submitting the buffer without its test of the handle.
kni_recv_Unguarded(w, p, m, txok) ==
    LET h == w.kni[p]
        t == rte_kni_tx_burst(w, h, m, txok)
    IN  IF t.ret = 1 THEN net_stats_kni_rx(t) ELSE mbuf_free2(t, m)

\* kni_recv submitting a rejected buffer a second time before it drops it.
kni_recv_Retry(w, p, m, txok) ==
    LET h == w.kni[p]
        t == rte_kni_tx_burst(w, h, m, txok)
        u == rte_kni_tx_burst(t, h, m, txok)
    IN  IF h # NULL
        THEN IF t.ret = 1 THEN net_stats_kni_rx(t)
             ELSE IF u.ret = 1 THEN net_stats_kni_rx(u) ELSE mbuf_free2(u, m)
        ELSE mbuf_free2(w, m)

\* kni_recv releasing the buffer also when the kernel took it.
kni_recv_FreeAlways(w, p, m, txok) ==
    LET h == w.kni[p]
        t == rte_kni_tx_burst(w, h, m, txok)
    IN  IF h # NULL
        THEN IF t.ret = 1 THEN mbuf_free2(net_stats_kni_rx(t), m) ELSE mbuf_free2(t, m)
        ELSE mbuf_free2(w, m)

\* kni_recv by the worker of the port at list position p, with buffer m.
kni_recv(w, p, m, txok) ==
    LET h == w.kni[p]
        t == rte_kni_tx_burst(w, h, m, txok)
    IN  IF h # NULL
        THEN IF t.ret = 1 THEN net_stats_kni_rx(t) ELSE mbuf_free2(t, m)
        ELSE mbuf_free2(w, m)

\* What reading the queue of a NULL handle may do: the access kills the process,
\* or it yields some number of wild buffer pointers, and the process dies after
\* it has handed them on.
WildBursts == {[crash |-> TRUE, num |-> 0]} \cup {[crash |-> FALSE, num |-> n] : n \in 0..NB_RXD}

Range(q) == {q[i] : i \in DOMAIN q}

NoBurst == [crash |-> FALSE, num |-> 0]

\* A buffer pointer that is no buffer.
Wild == -1

\* rte_kni_handle_request(kni): the request waiting on the handle, if there is one,
\* is answered: within the kernel's window, or after the kernel gave it up.
rte_kni_handle_request(w, p, h) ==
    LET w1 == Logged(w, [fn |-> "rte_kni_handle_request", kni |-> h.id])
    IN  IF h = NULL THEN w1
        ELSE [w1 EXCEPT !.req[p] = IF @ = "pending" THEN "served"
                                   ELSE IF @ = "expired" THEN "late" ELSE @]

\* rte_kni_rx_burst asked for the whole queue instead of NB_RXD buffers.
rte_kni_rx_burst_All(w, p, h, ub) ==
    LET w1 == Logged(w, [fn |-> "rte_kni_rx_burst", kni |-> h.id])
    IN  IF h # NULL
        THEN [w1 EXCEPT !.kq[p] = <<>>, !.ret = w.kq[p]]
        ELSE IF ub.crash THEN [w1 EXCEPT !.crashed = TRUE, !.ret = <<>>]
        ELSE [w1 EXCEPT !.ret = [i \in 1..ub.num |-> Wild]]

\* rte_kni_rx_burst(kni, mbufs, NB_RXD): mbufs is left in field ret.
rte_kni_rx_burst(w, p, h, ub) ==
    LET w1 == Logged(w, [fn |-> "rte_kni_rx_burst", kni |-> h.id])
        q == w.kq[p]
        num == IF Len(q) < NB_RXD THEN Len(q) ELSE NB_RXD
    IN  IF h # NULL
        THEN [w1 EXCEPT !.kq[p] = SubSeq(q, num + 1, Len(q)), !.ret = SubSeq(q, 1, num)]
        ELSE IF ub.crash THEN [w1 EXCEPT !.crashed = TRUE, !.ret = <<>>]
        ELSE [w1 EXCEPT !.ret = [i \in 1..ub.num |-> Wild]]

\* The loop of kni_send over the drained buffers, from index i on.
RECURSIVE kni_send_from(_, _, _)
kni_send_from(w, mbufs, i) ==
    IF i > Len(mbufs) THEN w
    ELSE kni_send_from(
             [Logged(w, [fn |-> "work_space_tx_send", m |-> mbufs[i]])
                EXCEPT !.stats.kni_tx = @ + 1],
             mbufs, i + 1)

\* kni_send draining the buffers before it services the requests.
kni_send_DrainFirst(w, p, ub) ==
    LET h == w.kni[p]
        b == rte_kni_rx_burst(w, p, h, ub)
        r == [rte_kni_handle_request(b, p, h) EXCEPT !.ret = b.ret]
    IN  IF b.crashed THEN [b EXCEPT !.ret = 0]
        ELSE [kni_send_from(r, r.ret, 1) EXCEPT !.ret = 0, !.crashed = Wild \in Range(r.ret)]

\* kni_send without its call of rte_kni_handle_request.
kni_send_NoService(w, p, ub) ==
    LET h == w.kni[p]
        b == rte_kni_rx_burst(w, p, h, ub)
    IN  IF b.crashed THEN [b EXCEPT !.ret = 0]
        ELSE [kni_send_from(b, b.ret, 1) EXCEPT !.ret = 0, !.crashed = Wild \in Range(b.ret)]

\* kni_send returning at once when the kernel has queued no buffer.
kni_send_OnlyWhenQueued(w, p, ub) ==
    LET h == w.kni[p]
        r == rte_kni_handle_request(w, p, h)
        b == rte_kni_rx_burst(r, p, h, ub)
    IN  IF h # NULL /\ w.kq[p] = <<>> THEN [w EXCEPT !.ret = 0]
        ELSE IF b.crashed THEN [b EXCEPT !.ret = 0]
        ELSE [kni_send_from(b, b.ret, 1) EXCEPT !.ret = 0, !.crashed = Wild \in Range(b.ret)]

\* kni_send by the worker of the port at list position p.
kni_send(w, p, ub) ==
    LET h == w.kni[p]
        r == rte_kni_handle_request(w, p, h)
        b == rte_kni_rx_burst(r, p, h, ub)
    IN  IF b.crashed THEN [b EXCEPT !.ret = 0]
        ELSE [kni_send_from(b, b.ret, 1) EXCEPT !.ret = 0, !.crashed = Wild \in Range(b.ret)]

------------------------------------------------------------------------------
\* The outcomes drawn for an operation are those of the calls it makes: a call that
\* is not made has the one outcome listed for it.
AllOk == [info |-> TRUE, mtu |-> TRUE, mac |-> TRUE, alloc |-> TRUE]

Reached(e, p) == cfg.kni /\ \A q \in 1..(p - 1) : e[q].info /\ e[q].mac /\ e[q].alloc

Init ==
    /\ cfg \in Configs
    /\ kni = [p \in Positions(cfg) |-> NULL]
    /\ live = {}
    /\ nextKni = 1
    /\ released = <<>>
    /\ kq = [p \in Positions(cfg) |-> <<>>]
    /\ nextKbuf = 0
    /\ nextBuf = 0
    /\ accepted = {}
    /\ freed = <<>>
    /\ stats = [kni_rx |-> 0, kni_tx |-> 0, drop |-> 0]
    /\ phase = "stopped"
    /\ starts = 0
    /\ crashed = FALSE
    /\ req = [p \in Positions(cfg) |-> "none"]
    /\ last = [op |-> "init", port |-> 0, ret |-> 0, calls |-> <<>>]

\* The state after an operation op (of the worker of port p, 0 for the control thread).
Commit(result, op, p) ==
    \E w \in {result} :
        /\ kni' = w.kni
        /\ live' = w.live
        /\ nextKni' = w.nextKni
        /\ released' = w.released
        /\ kq' = w.kq
        /\ accepted' = w.accepted
        /\ freed' = w.freed
        /\ stats' = w.stats
        /\ crashed' = w.crashed
        /\ req' = w.req
        /\ last' = [op |-> op, port |-> p, ret |-> w.ret, calls |-> w.calls]

\* The control thread calls kni_start, not again before kni_stop, and kni_link_up;
\* then the workers run, kni_recv and kni_send for their own port, until the
\* control thread calls kni_stop.
Start ==
    /\ ~crashed /\ phase = "stopped" /\ starts < MaxStarts
    /\ \E e \in [Positions(cfg) -> HwOutcomes] :
          /\ \A p \in Positions(cfg) : Reached(e, p) \/ e[p] = AllOk
          /\ Commit(kni_start(cfg, e, World), "kni_start", 0)
    /\ phase' = "started"
    /\ starts' = starts + 1
    /\ UNCHANGED <<cfg, nextKbuf, nextBuf>>

Stop ==
    /\ ~crashed
    /\ \E r \in [Positions(cfg) -> BOOLEAN] :
          /\ \A p \in Positions(cfg) : (cfg.kni /\ kni[p] # NULL) \/ r[p]
          /\ Commit(kni_stop(cfg, r, World), "kni_stop", 0)
    /\ phase' = "stopped"
    /\ UNCHANGED <<cfg, starts, nextKbuf, nextBuf>>

LinkUp ==
    /\ ~crashed /\ phase # "working"
    /\ \E o \in [Positions(cfg) -> LinkOutcomes] :
          /\ \A p \in Positions(cfg) :
                (kni[p] # NULL /\ \A q \in 1..(p - 1) : o[q] = "ok") \/ o[p] = "ok"
          /\ Commit(kni_link_up(cfg, o, World), "kni_link_up", 0)
    /\ UNCHANGED <<cfg, phase, starts, nextKbuf, nextBuf>>

Recv(p) ==
    /\ ~crashed /\ phase # "stopped" /\ nextBuf + nextKbuf < MaxBufs
    /\ \E txok \in BOOLEAN :
          /\ kni[p] # NULL \/ txok
          /\ Commit(kni_recv(World, p, nextBuf + 1, txok), "kni_recv", p)
    /\ nextBuf' = nextBuf + 1
    /\ phase' = "working"
    /\ UNCHANGED <<cfg, starts, nextKbuf>>

Send(p) ==
    /\ ~crashed /\ phase # "stopped"
    /\ \E ub \in WildBursts :
          /\ kni[p] = NULL \/ ub = NoBurst
          /\ Commit(kni_send(World, p, ub), "kni_send", p)
    /\ phase' = "working"
    /\ UNCHANGED <<cfg, starts, nextKbuf, nextBuf>>

\* The kernel queues one more buffer for transmission on the interface of port p.
KernelXmit(p) ==
    /\ ~crashed /\ nextBuf + nextKbuf < MaxBufs
    /\ kni[p] # NULL
    /\ kq' = [kq EXCEPT ![p] = Append(@, nextKbuf + 1)]
    /\ nextKbuf' = nextKbuf + 1
    /\ last' = [op |-> "kernel_xmit", port |-> p, ret |-> 0, calls |-> <<>>]
    /\ UNCHANGED <<cfg, kni, live, nextKni, released, nextBuf, accepted,
                   freed, stats, phase, starts, crashed, req>>

Next ==
    \/ Start
    \/ Stop
    \/ LinkUp
    \/ \E p \in Positions(cfg) : Recv(p)
    \/ \E p \in Positions(cfg) : Send(p)
    \/ \E p \in Positions(cfg) : KernelXmit(p)

Spec == Init /\ [][Next]_vars

------------------------------------------------------------------------------
\* The link-up handshake (the comment above kni_link_up): when an interface is
\* linked up the kernel sends a request that rte_kni_handle_request has to process;
\* the request has a timeout, and the interface fails to link up if it runs out.

\* The ports whose flags the last kni_link_up wrote.
LinkedUp ==
    { p \in Positions(cfg) :
        /\ kni[p] # NULL
        /\ \E i \in DOMAIN last.calls :
              last.calls[i] = [fn |-> "ioctl_SIOCSIFFLAGS", name |-> kni[p].conf.name,
                               ok |-> TRUE] }

\* The kernel sends its requests for the interfaces the link-up just set up.
KernelRequest ==
    /\ ~crashed /\ last.op = "kni_link_up"
    /\ \E p \in LinkedUp : req[p] = "none"
    /\ req' = [p \in Positions(cfg) |->
                 IF p \in LinkedUp /\ req[p] = "none" THEN "pending" ELSE req[p]]
    /\ last' = [op |-> "kernel_request", port |-> 0, ret |-> 0, calls |-> <<>>]
    /\ UNCHANGED <<cfg, kni, live, nextKni, released, kq, nextKbuf, nextBuf, accepted,
                   freed, stats, phase, starts, crashed>>

\* The timeout of the request on the interface of port p runs out.
Expire(p) ==
    /\ ~crashed /\ req[p] = "pending"
    /\ req' = [req EXCEPT ![p] = "expired"]
    /\ last' = [op |-> "expire", port |-> p, ret |-> 0, calls |-> <<>>]
    /\ UNCHANGED <<cfg, kni, live, nextKni, released, kq, nextKbuf, nextBuf, accepted,
                   freed, stats, phase, starts, crashed>>

\* A start in which every call succeeded: the data-path phase follows no other.
StartOk == Start /\ \A i \in DOMAIN last'.calls : last'.calls[i].ok

\* The worker of the port at list position p, when the list has such a port.
Worker(p) == p \in Positions(cfg) /\ Send(p)

\* The handshake and the steady state that follow a start, up to the stop.
NextReq ==
    \/ StartOk
    \/ LinkUp
    \/ \E p \in Positions(cfg) : Send(p)
    \/ \E p \in Positions(cfg) : KernelXmit(p)
    \/ KernelRequest
    \/ \E p \in Positions(cfg) : Expire(p)

\* Each worker calls kni_send once per iteration of its loop, for as long as the
\* process runs.
SpecReq ==
    /\ Init /\ [][NextReq]_vars
    /\ \A p \in 1..MaxPorts : WF_vars(Worker(p))

------------------------------------------------------------------------------
\* Properties.

Attached(p) == kni[p] # NULL

\* The list position of the port with hardware identifier id.
PosOfId(id) == CHOOSE p \in Positions(cfg) : cfg.ports[p].id = id

CallIdx == DOMAIN last.calls

Fits(name) == Len(name) <= RTE_KNI_NAMESIZE - 1

\* C1: after a successful start of the enabled subsystem every port holds a handle
\* and the interface of the port at list position i is named <prefix><i>, whatever
\* the hardware ids.
C1_NamesArePrefixOrdinal ==
    (cfg.kni /\ last.op = "kni_start" /\ last.ret = 0)
        => \A p \in Positions(cfg) : Attached(p) /\ kni[p].conf.name = FullName(cfg, p)

\* C2: every attached handle's group identifier is its port's hardware id, not the
\* list position, and it does not change while that handle stays attached.
C2_GroupIdIsHardwareId ==
    /\ [](\A p \in Positions(cfg) : Attached(p) => kni[p].conf.group_id = cfg.ports[p].id)
    /\ [][\A p \in Positions(cfg) :
            (Attached(p) /\ kni'[p] # NULL /\ kni'[p].id = kni[p].id)
                => kni'[p].conf.group_id = kni[p].conf.group_id]_vars

C2_Witness ==
    /\ NPorts(cfg) >= 2 /\ Attached(1) /\ Attached(2)
    /\ kni[1].conf.group_id > kni[2].conf.group_id
    /\ kni[1].conf.group_id # PortIdx(1)

\* C3: with the subsystem enabled, a stop that directly follows a start leaves no
\* port with a handle, and release has been invoked on every handle allocated.
C3_StartThenStopReleasesAll ==
    [][(cfg.kni /\ last.op = "kni_start" /\ last'.op = "kni_stop")
          => /\ \A p \in Positions(cfg) : kni'[p] = NULL
             /\ \A p \in Positions(cfg) :
                    Attached(p) => released'[kni[p].id] = released[kni[p].id] + 1
             /\ \A h \in DOMAIN released' : released'[h] >= 1]_vars

\* A stop after a start that failed at the second port: the first port's handle,
\* the only one allocated, has been released.
C3_Witness ==
    /\ cfg.kni /\ last.op = "kni_stop" /\ NPorts(cfg) = 2
    /\ DOMAIN released = {1} /\ released[1] = 1
    /\ \A p \in Positions(cfg) : ~Attached(p)

HwQueries == {"rte_eth_dev_info_get", "rte_eth_dev_get_mtu", "rte_eth_macaddr_get"}

\* C4 as claimed: whichever hardware query fails for a port, start returns failure
\* and that port gets no handle.
C4_AnyFailedQueryFailsStart ==
    last.op = "kni_start"
        => \A i \in CallIdx :
              (last.calls[i].fn \in HwQueries /\ ~last.calls[i].ok)
                  => last.ret = -1 /\ ~Attached(PosOfId(last.calls[i].port_id))

\* C4 as amended: a failed MTU-bounds query or MAC query fails start and leaves that
\* port without a handle; a failed current-MTU query is ignored, and the handle then
\* built keeps a zero current MTU; every other MTU and MAC field of an attached
\* handle holds what the hardware reports.
C4_BoundsOrMacFailureFailsStart ==
    /\ last.op = "kni_start"
          => \A i \in CallIdx :
                LET call == last.calls[i]
                IN  /\ (call.fn \in {"rte_eth_dev_info_get", "rte_eth_macaddr_get"} /\ ~call.ok)
                          => last.ret = -1 /\ ~Attached(PosOfId(call.port_id))
                    /\ (call.fn = "rte_eth_dev_get_mtu" /\ Attached(PosOfId(call.port_id)))
                          => kni[PosOfId(call.port_id)].conf.mtu =
                                 IF call.ok THEN DevMtu(call.port_id) ELSE 0
    /\ \A p \in Positions(cfg) :
          Attached(p) =>
              LET id == cfg.ports[p].id
                  conf == kni[p].conf
              IN  /\ conf.min_mtu = DevInfo(id).min_mtu
                  /\ conf.max_mtu = DevInfo(id).max_mtu
                  /\ conf.mac_addr = DevMac(id)
                  /\ conf.mtu \in {0, DevMtu(id)}

\* The first port got its handle although its current-MTU query failed, and the
\* MAC query of the second port failed start.
C4_Witness ==
    /\ last.op = "kni_start" /\ last.ret = -1 /\ NPorts(cfg) = 2
    /\ Attached(1) /\ kni[1].conf.mtu = 0 /\ ~Attached(2)
    /\ last.calls[Len(last.calls)].fn = "rte_eth_macaddr_get"

\* C5 as claimed: when start returns failure no port holds a handle.
C5_FailedStartLeavesNoHandle ==
    (last.op = "kni_start" /\ last.ret = -1) => \A p \in Positions(cfg) : ~Attached(p)

\* The number of ports start got to: each begins with the MTU-bounds query.
PortsTried == Cardinality({i \in CallIdx : last.calls[i].fn = "rte_eth_dev_info_get"})

\* C5 as amended: when start returns failure, exactly the ports listed before the
\* failing one keep the handle start attached to them; the failing port and the
\* ports after it hold none.
C5_FailedStartKeepsEarlierHandles ==
    (last.op = "kni_start" /\ last.ret = -1)
        => /\ PortsTried >= 1
           /\ \A p \in Positions(cfg) : Attached(p) <=> p < PortsTried

C5_Witness ==
    /\ last.op = "kni_start" /\ last.ret = -1
    /\ NPorts(cfg) = 2 /\ Attached(1) /\ ~Attached(2)

\* C6: start succeeds only if every name <prefix><ordinal> fits the interface-name
\* limit (a name that does not fit is reported as an error, not truncated), and
\* no two ports hold interfaces of the same name.
C6_LongNameIsConfigError ==
    /\ (cfg.kni /\ last.op = "kni_start" /\ last.ret = 0)
          => \A p \in Positions(cfg) : Fits(FullName(cfg, p))
    /\ \A p, q \in Positions(cfg) :
          (p # q /\ Attached(p) /\ Attached(q)) => kni[p].conf.name # kni[q].conf.name

\* The buffer the last kni_recv was given.
RecvBuf == nextBuf

\* C7: a kni_recv on a port without a handle calls nothing but the release of the
\* buffer, which goes back to its pool once and is counted as a drop; nothing is
\* submitted to the kernel, the success counter stays, and no error comes back.
C7_RecvWithoutHandleDrops ==
    [][(last'.op = "kni_recv" /\ kni[last'.port] = NULL)
          => /\ last'.calls = << [fn |-> "mbuf_free2", m |-> RecvBuf'] >>
             /\ RecvBuf' \notin DOMAIN freed /\ freed'[RecvBuf'] = 1
             /\ \A m \in DOMAIN freed : freed'[m] = freed[m]
             /\ accepted' = accepted
             /\ stats' = [stats EXCEPT !.drop = @ + 1]
             /\ last'.ret = 0 /\ ~crashed'
             /\ kni' = kni]_vars

C7_Witness ==
    /\ last.op = "kni_recv" /\ ~Attached(last.port)
    /\ stats.drop >= 1 /\ freed[RecvBuf] = 1

\* C8: a kni_recv on a port with a handle whose queue rejects the buffer submits it
\* once, releases it to its pool, counts one drop and leaves the success counter.
C8_RejectedBufferDroppedOnce ==
    [][(/\ last'.op = "kni_recv" /\ kni[last'.port] # NULL
        /\ \E i \in DOMAIN last'.calls :
              last'.calls[i].fn = "rte_kni_tx_burst" /\ ~last'.calls[i].ok)
          => /\ last'.calls =
                    << [fn |-> "rte_kni_tx_burst", kni |-> kni[last'.port].id,
                        m |-> RecvBuf', ok |-> FALSE],
                       [fn |-> "mbuf_free2", m |-> RecvBuf'] >>
             /\ RecvBuf' \notin DOMAIN freed /\ freed'[RecvBuf'] = 1
             /\ RecvBuf' \notin accepted'
             /\ stats' = [stats EXCEPT !.drop = @ + 1]]_vars

C8_Witness ==
    /\ last.op = "kni_recv" /\ Attached(last.port)
    /\ Len(last.calls) = 2 /\ ~last.calls[1].ok
    /\ stats.drop >= 1 /\ freed[RecvBuf] = 1

\* C9: every kni_send first services the requests of its port's handle, once, then
\* drains that handle, and only then hands buffers to the transmit operation.
C9_ServiceBeforeDrain ==
    last.op = "kni_send"
        => /\ Len(last.calls) >= 2
           /\ last.calls[1] = [fn |-> "rte_kni_handle_request", kni |-> kni[last.port].id]
           /\ last.calls[2] = [fn |-> "rte_kni_rx_burst", kni |-> kni[last.port].id]
           /\ \A i \in CallIdx : i > 2 => last.calls[i].fn = "work_space_tx_send"

\* A kni_send on a port with a handle that drained a buffer and transmitted it.
C9_Witness ==
    /\ last.op = "kni_send" /\ Attached(last.port)
    /\ Len(last.calls) >= 3 /\ last.calls[3].fn = "work_space_tx_send"

\* C10: with the enable flag false, start, stop and link-up call nothing (no hardware
\* query, no allocation, no release, no interface-control operation) and report
\* success, and no port ever holds a handle.
C10_DisabledLifecycleIsNoOp ==
    ~cfg.kni
        => /\ \A p \in Positions(cfg) : ~Attached(p)
           /\ live = {} /\ nextKni = 1 /\ DOMAIN released = {}
           /\ last.op \in {"kni_start", "kni_stop", "kni_link_up"}
                  => last.calls = <<>> /\ last.ret = 0

\* Disabled: link-up after a start and a stop.
C10_Witness ==
    /\ ~cfg.kni /\ last.op = "kni_link_up" /\ starts >= 1 /\ phase = "stopped"

\* C11 as claimed: a kni_send on a port without a handle does nothing: it makes no
\* request-servicing call and no drain call, transmits nothing, changes no counter
\* and the process lives on.
C11_SendWithoutHandleIsNoOp ==
    [][(last'.op = "kni_send" /\ kni[last'.port] = NULL)
          => /\ last'.calls = <<>>
             /\ stats' = stats
             /\ ~crashed']_vars

\* The list positions of the ports that hold a handle, in list order.
AttachedSeq == SelectSeq([i \in 1..NPorts(cfg) |-> i], LAMBDA i : kni[i] # NULL)

\* C12: with the subsystem enabled, kni_stop calls release once for every port that
\* holds a handle, in list order and whatever the earlier releases returned, and
\* nothing else; afterwards no port holds a handle, and a port that held none is
\* left as it was.
C12_StopReleasesEveryPort ==
    [][(cfg.kni /\ last'.op = "kni_stop")
          => LET att == AttachedSeq
             IN  /\ \A p \in Positions(cfg) : kni'[p] = NULL
                 /\ Len(last'.calls) = Len(att)
                 /\ \A i \in 1..Len(att) :
                        /\ last'.calls[i].fn = "rte_kni_release"
                        /\ last'.calls[i].kni = kni[att[i]].id
                        /\ released'[kni[att[i]].id] = released[kni[att[i]].id] + 1
                 /\ \A p \in Positions(cfg) : kni[p] = NULL => kq'[p] = kq[p]]_vars

\* A stop of two attached ports whose first release failed: the second port was
\* released all the same and both are detached.
C12_Witness ==
    /\ cfg.kni /\ last.op = "kni_stop" /\ Len(last.calls) = 2
    /\ ~last.calls[1].ok /\ last.calls[2].ok
    /\ released[last.calls[1].kni] = 1 /\ released[last.calls[2].kni] = 1
    /\ \A p \in Positions(cfg) : ~Attached(p)

\* The places in the last operation's calls of the calls to fn, in call order.
CallsOf(fn) == SelectSeq([i \in 1..Len(last.calls) |-> i], LAMBDA i : last.calls[i].fn = fn)

\* C13: kni_link_up opens a channel only for ports that hold a handle, in list
\* order; it returns failure exactly when a step (opening the channel, reading the
\* flags, writing them) failed, and after a failed step it opens no further channel;
\* it returns success only if the flags were written for every port with a handle.
C13_LinkUpInOrderFailFast ==
    last.op = "kni_link_up"
        => LET socks == CallsOf("socket")
               gets == CallsOf("ioctl_SIOCGIFFLAGS")
               sets == CallsOf("ioctl_SIOCSIFFLAGS")
               att == AttachedSeq
           IN  /\ Len(socks) <= Len(att)
               /\ Len(gets) <= Len(socks) /\ Len(sets) <= Len(gets)
               /\ \A j \in 1..Len(gets) :
                      /\ socks[j] < gets[j]
                      /\ last.calls[gets[j]].name = kni[att[j]].conf.name
               /\ \A j \in 1..Len(sets) :
                      /\ gets[j] < sets[j]
                      /\ last.calls[sets[j]].name = kni[att[j]].conf.name
               /\ last.ret \in {0, -1}
               /\ last.ret = -1 <=> \E i \in CallIdx : ~last.calls[i].ok
               /\ \A i \in CallIdx :
                      ~last.calls[i].ok
                          => \A k \in CallIdx : k > i => last.calls[k].fn = "close"
               /\ last.ret = 0
                      => /\ Len(sets) = Len(att)
                         /\ \A j \in 1..Len(sets) : last.calls[sets[j]].ok

\* A successful link-up after a start that failed at the second port: one channel,
\* for the first port; the second port is skipped.
C13_Witness ==
    /\ last.op = "kni_link_up" /\ last.ret = 0 /\ NPorts(cfg) = 2
    /\ Attached(1) /\ ~Attached(2)
    /\ Len(CallsOf("socket")) = 1
    /\ last.calls[3] = [fn |-> "ioctl_SIOCSIFFLAGS", name |-> kni[1].conf.name, ok |-> TRUE]

C16_BufferOwnershipConserved ==
    /\ accepted \cup DOMAIN freed = 1..nextBuf
    /\ accepted \cap DOMAIN freed = {}
    /\ \A m \in DOMAIN freed : freed[m] = 1
    /\ stats.kni_rx = Cardinality(accepted)
    /\ last.op = "kni_recv"
          => \/ /\ RecvBuf \in accepted
                /\ last.calls[Len(last.calls)] =
                       [fn |-> "rte_kni_tx_burst", kni |-> kni[last.port].id,
                        m |-> RecvBuf, ok |-> TRUE]
             \/ /\ RecvBuf \in DOMAIN freed
                /\ last.calls[Len(last.calls)] = [fn |-> "mbuf_free2", m |-> RecvBuf]

\* Two buffers were passed in: the kernel took one and the other was released.
C16_Witness ==
    /\ last.op = "kni_recv" /\ nextBuf = 2
    /\ Cardinality(accepted) = 1 /\ Cardinality(DOMAIN freed) = 1
    /\ stats.kni_rx = 1

\* The number of channels open after the first n calls of the last operation.
OpenChannels(n) ==
    Cardinality({i \in 1..n : last.calls[i].fn = "socket" /\ last.calls[i].ok})
        - Cardinality({i \in 1..n : last.calls[i].fn = "close"})

\* C18: during kni_link_up at most one channel is open at a time, a channel is
\* opened only when the one before it has been closed, an ioctl is made only on an
\* open channel, and when kni_link_up returns, with success or failure, every
\* channel it opened has been closed.
C18_EveryChannelClosed ==
    last.op = "kni_link_up"
        => /\ \A n \in 0..Len(last.calls) : OpenChannels(n) \in {0, 1}
           /\ \A i \in CallIdx :
                  /\ last.calls[i].fn = "socket" => OpenChannels(i - 1) = 0
                  /\ last.calls[i].fn \in {"ioctl_SIOCGIFFLAGS", "ioctl_SIOCSIFFLAGS", "close"}
                         => OpenChannels(i - 1) = 1
           /\ OpenChannels(Len(last.calls)) = 0

\* A link-up that failed reading the flags: its channel was closed before it returned.
C18_Witness ==
    /\ last.op = "kni_link_up" /\ last.ret = -1
    /\ Len(last.calls) >= 3
    /\ last.calls[Len(last.calls) - 1].fn = "ioctl_SIOCGIFFLAGS"
    /\ ~last.calls[Len(last.calls) - 1].ok
    /\ last.calls[Len(last.calls)].fn = "close"

\* C19: release is called at most once on a handle; while no start has been made
\* since the last stop no port holds a handle, and a stop made then calls nothing
\* and changes nothing; a stop calls release only on handles that ports hold.
C19_ReleaseAtMostOnce ==
    /\ [](/\ \A h \in DOMAIN released : released[h] <= 1
          /\ phase = "stopped" => \A p \in Positions(cfg) : ~Attached(p))
    /\ [][last'.op = "kni_stop"
            => /\ \A i \in DOMAIN last'.calls :
                      \E p \in Positions(cfg) :
                          Attached(p) /\ last'.calls[i].kni = kni[p].id
               /\ phase = "stopped"
                      => /\ last'.calls = <<>>
                         /\ UNCHANGED <<cfg, kni, live, nextKni, released, kq, nextKbuf,
                                        nextBuf, accepted, freed, stats, phase, starts,
                                        crashed, req>>]_vars

\* A second stop: the handles were released by the stop before it, and this one
\* called nothing.
C19_Witness ==
    /\ cfg.kni /\ last.op = "kni_stop" /\ last.calls = <<>>
    /\ NPorts(cfg) = 2 /\ DOMAIN released = {1, 2}
    /\ released[1] = 1 /\ released[2] = 1

\* The hardware identifier of the port a call of kni_alloc is made for.
CallPortId(call) ==
    IF call.fn = "rte_kni_alloc" THEN call.conf.group_id ELSE call.port_id

\* C20: when kni_start of the enabled subsystem fails, the last call it made is the
\* failed query or allocation of the port at some list position k; the ports before
\* k hold a handle, k and the ports after it hold none, and no query or allocation
\* was made for a port after k.
C20_FailedStartStopsAtFailingPort ==
    (cfg.kni /\ last.op = "kni_start" /\ last.ret = -1)
        => LET n == Len(last.calls)
               k == PosOfId(CallPortId(last.calls[n]))
           IN  /\ n >= 2 /\ ~last.calls[n].ok
               /\ \A i \in 1..(n - 1) : last.calls[i].ok \/ last.calls[i].fn = "rte_eth_dev_get_mtu"
               /\ \A p \in Positions(cfg) : Attached(p) <=> p < k
               /\ \A i \in 2..n : PosOfId(CallPortId(last.calls[i])) <= k
               /\ \A p \in 1..k : \E i \in 2..n : CallPortId(last.calls[i]) = cfg.ports[p].id

\* A start of two ports that failed at the first: no port holds a handle and
\* nothing was asked of the second port.
C20_Witness ==
    /\ cfg.kni /\ last.op = "kni_start" /\ last.ret = -1 /\ NPorts(cfg) = 2
    /\ ~Attached(1) /\ ~Attached(2)
    /\ \A i \in 2..Len(last.calls) : CallPortId(last.calls[i]) = cfg.ports[1].id

\* C15 as claimed: no request the kernel sent for a link-up runs out of time, nor
\* is one answered only after it did.
C15_NoRequestExpires ==
    \A p \in Positions(cfg) : req[p] \notin {"expired", "late"}

\* C15 as amended: kni_link_up answers no request itself and calls no request
\* servicing; a request stays as it is until the worker of its port calls kni_send,
\* and that call answers it: in time if the timeout has not run out before the
\* call, too late if it has. Nothing but that call answers a request.
C15_RequestAnsweredByNextSend ==
    [][/\ last'.op = "kni_link_up"
            => /\ req' = req
               /\ \A i \in DOMAIN last'.calls : last'.calls[i].fn # "rte_kni_handle_request"
       /\ (last'.op = "kni_send" /\ kni[last'.port] # NULL)
            => req' = [req EXCEPT ![last'.port] =
                          IF @ = "pending" THEN "served"
                          ELSE IF @ = "expired" THEN "late" ELSE @]
       /\ \A p \in Positions(cfg) :
              (req'[p] # req[p] /\ req'[p] \in {"served", "late"})
                  => last'.op = "kni_send" /\ last'.port = p]_vars

\* The worker's kni_send came before the timeout ran out: the request was answered
\* in time.
C15_Witness ==
    /\ last.op = "kni_send" /\ Attached(last.port)
    /\ req[last.port] = "served"

\* What ends a worker's calls: its port lost its handle, or the process died.
WorkerGone(p) == kni[p] = NULL \/ crashed

\* No request waits on the handle of port p for a worker that still runs.
NoneWaiting(p) ==
    p \in Positions(cfg) => (req[p] \notin {"pending", "expired"} \/ WorkerGone(p))

\* Buffer b is not in the kernel's queue of port p, or the worker of p is gone.
NotQueued(p, b) ==
    p \in Positions(cfg) => (b \notin Range(kq[p]) \/ WorkerGone(p))

\* C17: with each worker calling kni_send again and again, no request stays waiting
\* on the handle of a port and no buffer stays in the kernel's queue of a port; a
\* waiting request goes only by being answered, by a kni_send of its port's worker
\* and by no other step, and a queued buffer goes only by a kni_send of its port's
\* worker passing it to the transmit operation.
C17_SendEventuallyServes ==
    /\ \A p \in 1..MaxPorts : []<>NoneWaiting(p)
    /\ \A p \in 1..MaxPorts : \A b \in 1..MaxBufs : []<>NotQueued(p, b)
    /\ [][\A p \in Positions(cfg) :
            /\ (req[p] \in {"pending", "expired"} /\ req'[p] \notin {"pending", "expired"})
                  => /\ last'.op = "kni_send" /\ last'.port = p
                     /\ req'[p] \in {"served", "late"}
            /\ \A b \in Range(kq[p]) :
                  b \notin Range(kq'[p])
                      => /\ last'.op = "kni_send" /\ last'.port = p
                         /\ \E i \in DOMAIN last'.calls :
                                last'.calls[i] = [fn |-> "work_space_tx_send", m |-> b]]_vars

\* A kni_send that answered a request whose timeout had run out and transmitted a
\* buffer the kernel had queued.
C17_Witness ==
    /\ last.op = "kni_send" /\ Attached(last.port)
    /\ req[last.port] = "late"
    /\ Len(last.calls) >= 3 /\ last.calls[3].fn = "work_space_tx_send"

==============================================================================
